---- MODULE Spec2Model ----
(***************************************************************************)
(* Model of cc_ffxiv_craft_alloc.py: the resource kinds, the recipe record *)
(* and its signature codec, the resource summary, the single-trial Monte   *)
(* Carlo allocator (approximate_counts) and the meta allocator             *)
(* (meta_approximate).                                                     *)
(*                                                                         *)
(* Python strings are sequences of one-character strings; a dict is a      *)
(* function whose DOMAIN is the set of keys; a list is a sequence; list    *)
(* index k of the code is index k + 1 here.                                *)
(***************************************************************************)
EXTENDS Integers, Sequences, FiniteSets, TLC

VARIABLES
    recipes,              \* RecipeCollection.recipes
    budget_ingredients,   \* argument of meta_approximate / approximate_counts
    budget_crystals,      \* argument of meta_approximate / approximate_counts
    max_rounds,           \* argument
    failures_until_stop,  \* argument
    max_approximations,   \* argument of meta_approximate
    pc,                   \* position in meta_approximate / approximate_counts
    n,                    \* loop variable of meta_approximate
    max_items,            \* local of meta_approximate
    max_vectors,          \* local of meta_approximate
    counts,               \* local of approximate_counts
    failure_streak,       \* local of approximate_counts
    rounds,               \* local of approximate_counts
    n_recipes,            \* local of approximate_counts
    i_recipe,             \* local of approximate_counts
    picks,                \* history: calls of random.randint in the current trial
    reverts,              \* history: reverted picks in the current trial
    held,                 \* history: counts as it was at the last loop head
    trial_vectors,        \* history: the vectors returned by the trials so far
    self,                 \* the CollectableRecipe object the codec works on
    signature,            \* the signature string given to or made by the codec
    original,             \* history: self as it was before the last codec call
    given,                \* history: the signature given to the last from_string
    target,               \* history: the object the last from_string was called on
    other,                \* the argument of overlap
    overlapping,          \* the pair of lists overlap returned
    counts_id,            \* history: identity of the list object bound to counts
    tracked_ids,          \* history: identities of the list objects in max_vectors
    order,                \* a rearrangement of the trial vectors
    merged                \* the result of the reduction in trial order

alloc_vars == <<recipes, budget_ingredients, budget_crystals, max_rounds,
          failures_until_stop, max_approximations, pc, n, max_items,
          max_vectors, counts, failure_streak, rounds, n_recipes, i_recipe,
          picks, reverts, held, trial_vectors, counts_id, tracked_ids>>

codec_vars == <<self, signature, original, given, target, other, overlapping>>

merge_vars == <<order, merged>>

ids == <<counts_id, tracked_ids>>

vars == <<alloc_vars, codec_vars, merge_vars>>

args == <<recipes, budget_ingredients, budget_crystals, max_rounds,
          failures_until_stop, max_approximations>>

-----------------------------------------------------------------------------
(* Bounds of the model *)

MaxRecipes == 2
MaxReq == 2
MaxBudget == 2
MaxRoundsArg == 1
MaxFailures == 2
MaxTrials == 2
MaxKinds == 2
MaxQty == 1
MaxNameLen == 1
MaxMerged == 3

\* The greatest count the model tells apart. A recipe with a requirement
\* never has a greater count, not even tentatively: its count times the
\* requirement is within a budget of at most MaxBudget at every loop head.
\* The count of a recipe without requirements grows without limit and
\* enters no bill; MaxCount stands for every count from MaxCount on.
MaxCount == MaxBudget + 1

\* The greatest value the history counters picks and reverts tell apart
MaxPicks == MaxRoundsArg + MaxFailures + 1

-----------------------------------------------------------------------------
(* The kinds *)

\* class Crystal, members in definition order
CrystalMembers == <<"FIRE", "ICE", "WIND", "EARTH", "LIGHTNING", "WATER">>

Crystal == {CrystalMembers[k] : k \in 1..Len(CrystalMembers)}

\* class Ingredient, members in definition order
IngredientMembers ==
    <<"LUMBER", "LEATHER", "GEM", "CLOTH", "INGOT", "STONE", "ALCHEMIC", "FOOD">>

Ingredient == {IngredientMembers[k] : k \in 1..Len(IngredientMembers)}

-----------------------------------------------------------------------------
(* Recipes and budgets *)

\* CollectableRecipe.__init__: last write wins on a duplicate kind
RECURSIVE PairsToDict(_)
PairsToDict(pairs) ==
    IF pairs = <<>> THEN <<>>
    ELSE LET front == PairsToDict(SubSeq(pairs, 1, Len(pairs) - 1))
             last == pairs[Len(pairs)]
         IN [k \in (DOMAIN front) \cup {last[1]} |->
                IF k = last[1] THEN last[2] ELSE front[k]]

CollectableRecipe(name, ingredients, crystals) ==
    [name |-> name,
     ingredients |-> PairsToDict(ingredients),
     crystals |-> PairsToDict(crystals)]

\* CollectableRecipe(): the default recipe, which a failed decode leaves
DefaultRecipe == CollectableRecipe(<<>>, <<>>, <<>>)

\* The recipes the collections are drawn from
RecipePool ==
    {DefaultRecipe}
    \cup {CollectableRecipe(<<"a">>, <<<<"LUMBER", q>>>>, <<>>) : q \in 1..MaxReq}
    \cup {CollectableRecipe(<<"b">>, <<<<"GEM", 1>>>>, <<<<"WIND", q>>>>) : q \in 1..MaxReq}

RECURSIVE SeqsUpTo(_, _)
SeqsUpTo(S, len) ==
    IF len = 0 THEN {<<>>}
    ELSE LET shorter == SeqsUpTo(S, len - 1)
         IN shorter \cup {Append(s, x) : s \in {t \in shorter : Len(t) = len - 1}, x \in S}

\* A budget gives every kind of its family a stock: one for the first member
\* of the family, one for the others
BudgetOf(Members, first, others) ==
    [k \in {Members[j] : j \in 1..Len(Members)} |->
        IF k = Members[1] THEN first ELSE others]

-----------------------------------------------------------------------------
(* RecipeCollection.summarize *)

\* Line 190 without the count: summary[...][i] += r.ingredients[i]
RECURSIVE SumIngredient_NoCount(_, _, _, _)
SumIngredient_NoCount(rs, cs, i, upto) ==
    IF upto = 0 THEN 0
    ELSE SumIngredient_NoCount(rs, cs, i, upto - 1)
         + (IF i \in DOMAIN rs[upto].ingredients
            THEN rs[upto].ingredients[i] ELSE 0)

RECURSIVE SumIngredient(_, _, _, _)
SumIngredient(rs, cs, i, upto) ==
    IF upto = 0 THEN 0
    ELSE SumIngredient(rs, cs, i, upto - 1)
         + (IF i \in DOMAIN rs[upto].ingredients
            THEN cs[upto] * rs[upto].ingredients[i] ELSE 0)

RECURSIVE SumCrystal(_, _, _, _)
SumCrystal(rs, cs, c, upto) ==
    IF upto = 0 THEN 0
    ELSE SumCrystal(rs, cs, c, upto - 1)
         + (IF c \in DOMAIN rs[upto].crystals
            THEN cs[upto] * rs[upto].crystals[c] ELSE 0)

summarize(rs, cs) ==
    IF Len(cs) # Len(rs) THEN <<>>
    ELSE [ingredients |-> [i \in Ingredient |-> SumIngredient(rs, cs, i, Len(rs))],
          crystals |-> [c \in Crystal |-> SumCrystal(rs, cs, c, Len(rs))]]

\* valid_bill with >= for > in lines 223 and 228
valid_bill_Strict(summary, budget_i, budget_c) ==
    /\ \A i \in Ingredient : ~(summary.ingredients[i] >= budget_i[i])
    /\ \A c \in Crystal : ~(summary.crystals[c] >= budget_c[c])

\* valid_bill, the helper of approximate_counts
valid_bill(summary, budget_i, budget_c) ==
    /\ \A i \in Ingredient : ~(summary.ingredients[i] > budget_i[i])
    /\ \A c \in Crystal : ~(summary.crystals[c] > budget_c[c])

-----------------------------------------------------------------------------
(* The state after the call of meta_approximate has bound its arguments *)

Init ==
    /\ recipes \in SeqsUpTo(RecipePool, MaxRecipes)
    /\ \E first, others \in 0..MaxBudget :
          budget_ingredients = BudgetOf(IngredientMembers, first, others)
    /\ \E stock \in 0..MaxBudget :
          budget_crystals = BudgetOf(CrystalMembers, stock, stock)
    /\ max_rounds \in 0..MaxRoundsArg
    /\ failures_until_stop \in 0..MaxFailures
    /\ max_approximations \in 0..MaxTrials
    /\ pc = "for"
    /\ n = 0
    /\ max_items = 0
    /\ max_vectors = <<>>
    /\ counts = <<>>
    /\ failure_streak = 0
    /\ rounds = 0
    /\ n_recipes = 0
    /\ i_recipe = 0
    /\ picks = 0
    /\ reverts = 0
    /\ held = <<>>
    /\ trial_vectors = <<>>
    /\ self = DefaultRecipe
    /\ signature = <<>>
    /\ original = DefaultRecipe
    /\ given = <<>>
    /\ target = DefaultRecipe
    /\ other = DefaultRecipe
    /\ overlapping = <<<<>>, <<>>>>
    /\ counts_id = 0
    /\ tracked_ids = <<>>
    /\ order = <<>>
    /\ merged = [items |-> 0, vectors |-> <<>>]

-----------------------------------------------------------------------------
(* approximate_counts *)

\* Lines 277-278 with the range of the loop one too long
EnterTrial_Inclusive ==
    /\ pc = "for"
    /\ n <= max_approximations
    /\ counts' = [k \in 1..Len(recipes) |-> 0]
    /\ failure_streak' = 0
    /\ rounds' = 0
    /\ n_recipes' = Len(recipes) - 1
    /\ picks' = 0
    /\ reverts' = 0
    /\ held' = [k \in 1..Len(recipes) |-> 0]
    /\ counts_id' = counts_id + 1
    /\ pc' = "while"
    /\ UNCHANGED <<codec_vars, merge_vars, tracked_ids,
                   args, n, max_items, max_vectors, i_recipe, trial_vectors>>

\* The tracked list, which holds references to the lists the trials
\* returned, once the list bound to counts holds new: a write to a list is
\* seen through every reference to it
Written(new) ==
    [k \in 1..Len(max_vectors) |->
        IF tracked_ids[k] = counts_id THEN new ELSE max_vectors[k]]

\* Lines 235-239 with line 235 zeroing the list of the previous trial in
\* place instead of building a new list
EnterTrial_Reuse ==
    /\ pc = "for"
    /\ n < max_approximations
    /\ counts' = [k \in 1..Len(recipes) |-> 0]
    /\ failure_streak' = 0
    /\ rounds' = 0
    /\ n_recipes' = Len(recipes) - 1
    /\ picks' = 0
    /\ reverts' = 0
    /\ held' = [k \in 1..Len(recipes) |-> 0]
    /\ counts_id' = IF counts_id = 0 THEN 1 ELSE counts_id
    /\ max_vectors' = Written(counts')
    /\ pc' = "while"
    /\ UNCHANGED <<codec_vars, merge_vars, tracked_ids,
                   args, n, max_items, i_recipe, trial_vectors>>

\* meta_approximate's loop calls approximate_counts: lines 235-239
EnterTrial ==
    /\ pc = "for"
    /\ n < max_approximations
    /\ counts' = [k \in 1..Len(recipes) |-> 0]
    /\ failure_streak' = 0
    /\ rounds' = 0
    /\ n_recipes' = Len(recipes) - 1
    /\ picks' = 0
    /\ reverts' = 0
    /\ held' = [k \in 1..Len(recipes) |-> 0]
    /\ counts_id' = counts_id + 1
    /\ pc' = "while"
    /\ UNCHANGED <<codec_vars, merge_vars, tracked_ids,
                   args, n, max_items, max_vectors, i_recipe, trial_vectors>>

\* Line 241 with the failure test off by one
LoopCondition_Inclusive ==
    rounds < max_rounds /\ failure_streak <= failures_until_stop

\* The loop condition of line 241
LoopCondition == rounds < max_rounds /\ failure_streak < failures_until_stop

\* counts[i_recipe] += 1 of line 243, on the counts the model tells apart
Increment(c) == IF c < MaxCount THEN c + 1 ELSE c

\* One more pick or revert in a history counter
Tally(c) == IF c < MaxPicks THEN c + 1 ELSE c

\* Lines 242-243: the random pick and the tentative increment
Pick ==
    /\ pc = "while"
    /\ LoopCondition
    /\ n_recipes >= 0
    /\ \E i \in 0..n_recipes :
          /\ i_recipe' = i
          /\ counts' = [counts EXCEPT ![i + 1] = Increment(@)]
    /\ picks' = Tally(picks)
    /\ held' = counts
    /\ pc' = "picked"
    /\ max_vectors' = Written(counts')
    /\ UNCHANGED <<codec_vars, merge_vars, ids,
                   args, n, max_items, failure_streak, rounds,
                   n_recipes, reverts, trial_vectors>>

\* Line 242 on an empty collection: random.randint(0, -1) raises ValueError,
\* which nothing in approximate_counts or meta_approximate catches
PickRaises ==
    /\ pc = "while"
    /\ LoopCondition
    /\ n_recipes < 0
    /\ pc' = "raised"
    /\ UNCHANGED <<codec_vars, merge_vars, ids,
                   args, n, max_items, max_vectors, counts, failure_streak,
                   rounds, n_recipes, i_recipe, picks, reverts, held, trial_vectors>>

\* Lines 245-254 without the revert of line 247
CheckBill_NoRevert ==
    /\ pc = "picked"
    /\ LET summary == summarize(recipes, counts)
       IN IF ~valid_bill(summary, budget_ingredients, budget_crystals)
          THEN /\ failure_streak' = failure_streak + 1
               /\ reverts' = Tally(reverts)
               /\ UNCHANGED counts
          ELSE /\ failure_streak' = 0
               /\ UNCHANGED <<counts, reverts>>
    /\ pc' = "while"
    /\ max_vectors' = Written(counts')
    /\ UNCHANGED <<codec_vars, merge_vars, ids,
                   args, n, max_items, rounds, n_recipes,
                   i_recipe, picks, held, trial_vectors>>

\* Lines 245-254 with the revert of line 247 applied to entry 0
CheckBill_RevertFirst ==
    /\ pc = "picked"
    /\ LET summary == summarize(recipes, counts)
       IN IF ~valid_bill(summary, budget_ingredients, budget_crystals)
          THEN /\ counts' = [counts EXCEPT ![1] = @ - 1]
               /\ failure_streak' = failure_streak + 1
               /\ reverts' = Tally(reverts)
          ELSE /\ failure_streak' = 0
               /\ UNCHANGED <<counts, reverts>>
    /\ pc' = "while"
    /\ max_vectors' = Written(counts')
    /\ UNCHANGED <<codec_vars, merge_vars, ids,
                   args, n, max_items, rounds, n_recipes,
                   i_recipe, picks, held, trial_vectors>>

\* Lines 245-254 without the reset of line 252
CheckBill_NoReset ==
    /\ pc = "picked"
    /\ LET summary == summarize(recipes, counts)
       IN IF ~valid_bill(summary, budget_ingredients, budget_crystals)
          THEN /\ counts' = [counts EXCEPT ![i_recipe + 1] = @ - 1]
               /\ failure_streak' = failure_streak + 1
               /\ reverts' = Tally(reverts)
          ELSE UNCHANGED <<failure_streak, counts, reverts>>
    /\ pc' = "while"
    /\ max_vectors' = Written(counts')
    /\ UNCHANGED <<codec_vars, merge_vars, ids,
                   args, n, max_items, rounds, n_recipes,
                   i_recipe, picks, held, trial_vectors>>

\* Lines 245-254 with line 248 after the if: every pick counts as a failure
CheckBill_CountsEveryPick ==
    /\ pc = "picked"
    /\ LET summary == summarize(recipes, counts)
       IN IF ~valid_bill(summary, budget_ingredients, budget_crystals)
          THEN /\ counts' = [counts EXCEPT ![i_recipe + 1] = @ - 1]
               /\ reverts' = Tally(reverts)
          ELSE UNCHANGED <<counts, reverts>>
    /\ failure_streak' = failure_streak + 1
    /\ pc' = "while"
    /\ max_vectors' = Written(counts')
    /\ UNCHANGED <<codec_vars, merge_vars, ids,
                   args, n, max_items, rounds, n_recipes,
                   i_recipe, picks, held, trial_vectors>>

\* Lines 245-254: the bill of the tentative vector, then revert or keep
CheckBill ==
    /\ pc = "picked"
    /\ LET summary == summarize(recipes, counts)
       IN IF ~valid_bill(summary, budget_ingredients, budget_crystals)
          THEN /\ counts' = [counts EXCEPT ![i_recipe + 1] = @ - 1]
               /\ failure_streak' = failure_streak + 1
               /\ reverts' = Tally(reverts)
          ELSE /\ failure_streak' = 0
               /\ UNCHANGED <<counts, reverts>>
    /\ pc' = "while"
    /\ max_vectors' = Written(counts')
    /\ UNCHANGED <<codec_vars, merge_vars, ids,
                   args, n, max_items, rounds, n_recipes,
                   i_recipe, picks, held, trial_vectors>>

\* Line 259 and line 278: the loop is left, counts is returned as approx
ReturnCounts ==
    /\ pc = "while"
    /\ ~LoopCondition
    /\ trial_vectors' = Append(trial_vectors, counts)
    /\ pc' = "returned"
    /\ UNCHANGED <<codec_vars, merge_vars, ids,
                   args, n, max_items, max_vectors, counts, failure_streak,
                   rounds, n_recipes, i_recipe, picks, reverts, held>>

-----------------------------------------------------------------------------
(* meta_approximate *)

RECURSIVE sum(_)
sum(v) == IF v = <<>> THEN 0 ELSE v[1] + sum(Tail(v))

\* Lines 282-290 with the comparison of line 282 reversed
Track_Less ==
    /\ pc = "returned"
    /\ LET approx == counts
       IN IF sum(approx) < max_items
          THEN /\ max_items' = sum(approx)
               /\ max_vectors' = <<approx>>
               /\ tracked_ids' = <<counts_id>>
          ELSE IF sum(approx) = max_items
          THEN /\ max_vectors' = Append(max_vectors, approx)
               /\ tracked_ids' = Append(tracked_ids, counts_id)
               /\ UNCHANGED max_items
          ELSE UNCHANGED <<max_items, max_vectors, tracked_ids>>
    /\ n' = n + 1
    /\ pc' = "for"
    /\ UNCHANGED <<codec_vars, merge_vars, counts_id,
                   args, counts, failure_streak, rounds, n_recipes, i_recipe,
                   picks, reverts, held, trial_vectors>>

\* Lines 282-290 with line 286 appending to the old list
Track_KeepOld ==
    /\ pc = "returned"
    /\ LET approx == counts
       IN IF sum(approx) > max_items
          THEN /\ max_items' = sum(approx)
               /\ max_vectors' = Append(max_vectors, approx)
               /\ tracked_ids' = Append(tracked_ids, counts_id)
          ELSE IF sum(approx) = max_items
          THEN /\ max_vectors' = Append(max_vectors, approx)
               /\ tracked_ids' = Append(tracked_ids, counts_id)
               /\ UNCHANGED max_items
          ELSE UNCHANGED <<max_items, max_vectors, tracked_ids>>
    /\ n' = n + 1
    /\ pc' = "for"
    /\ UNCHANGED <<codec_vars, merge_vars, counts_id,
                   args, counts, failure_streak, rounds, n_recipes, i_recipe,
                   picks, reverts, held, trial_vectors>>

\* Lines 282-290 on approx, the vector the trial returned
Track ==
    /\ pc = "returned"
    /\ LET approx == counts
       IN IF sum(approx) > max_items
          THEN /\ max_items' = sum(approx)
               /\ max_vectors' = <<approx>>
               /\ tracked_ids' = <<counts_id>>
          ELSE IF sum(approx) = max_items
          THEN /\ max_vectors' = Append(max_vectors, approx)
               /\ tracked_ids' = Append(tracked_ids, counts_id)
               /\ UNCHANGED max_items
          ELSE UNCHANGED <<max_items, max_vectors, tracked_ids>>
    /\ n' = n + 1
    /\ pc' = "for"
    /\ UNCHANGED <<codec_vars, merge_vars, counts_id,
                   args, counts, failure_streak, rounds, n_recipes, i_recipe,
                   picks, reverts, held, trial_vectors>>

\* Line 294: range(max_approximations) is exhausted
ReturnMeta ==
    /\ pc = "for"
    /\ ~(n < max_approximations)
    /\ pc' = "meta_returned"
    /\ UNCHANGED <<codec_vars, merge_vars, ids,
                   args, n, max_items, max_vectors, counts, failure_streak,
                   rounds, n_recipes, i_recipe, picks, reverts, held, trial_vectors>>

Next ==
    \/ EnterTrial
    \/ Pick
    \/ PickRaises
    \/ CheckBill
    \/ ReturnCounts
    \/ Track
    \/ ReturnMeta

Spec == Init /\ [][Next]_vars

\* The interpreter runs the next statement whenever there is one
FairSpec == Spec /\ WF_vars(Next)

-----------------------------------------------------------------------------
(* The values and the orders of the kinds *)

\* Crystal: the value of each member
CrystalValue ==
    [c \in Crystal |->
        CASE c = "FIRE" -> "F" [] c = "ICE" -> "I" [] c = "WIND" -> "W"
          [] c = "EARTH" -> "E" [] c = "LIGHTNING" -> "L" [] c = "WATER" -> "A"]

\* Ingredient: the value of each member
IngredientValue ==
    [i \in Ingredient |->
        CASE i = "LUMBER" -> "W" [] i = "LEATHER" -> "L" [] i = "GEM" -> "G"
          [] i = "CLOTH" -> "C" [] i = "INGOT" -> "I" [] i = "STONE" -> "S"
          [] i = "ALCHEMIC" -> "A" [] i = "FOOD" -> "F"]

\* sorting_dict of Crystal.__lt__ with the ranks of ICE and WIND exchanged
Crystal_sorting_dict_Swapped ==
    [v \in {"F", "I", "W", "E", "L", "A"} |->
        CASE v = "F" -> 0 [] v = "I" -> 2 [] v = "W" -> 1
          [] v = "E" -> 3 [] v = "L" -> 4 [] v = "A" -> 5]

\* sorting_dict of Crystal.__lt__
Crystal_sorting_dict ==
    [v \in {"F", "I", "W", "E", "L", "A"} |->
        CASE v = "F" -> 0 [] v = "I" -> 1 [] v = "W" -> 2
          [] v = "E" -> 3 [] v = "L" -> 4 [] v = "A" -> 5]

\* Crystal.__lt__
Crystal_lt(a, b) ==
    Crystal_sorting_dict[CrystalValue[a]] < Crystal_sorting_dict[CrystalValue[b]]

\* sorting_dict of Ingredient.__lt__
Ingredient_sorting_dict ==
    [v \in {"W", "L", "G", "C", "I", "S", "A", "F"} |->
        CASE v = "W" -> 0 [] v = "L" -> 1 [] v = "G" -> 2 [] v = "C" -> 4
          [] v = "I" -> 5 [] v = "S" -> 3 [] v = "A" -> 6 [] v = "F" -> 7]

\* Ingredient.__lt__
Ingredient_lt(a, b) ==
    Ingredient_sorting_dict[IngredientValue[a]]
        < Ingredient_sorting_dict[IngredientValue[b]]

\* sorted(keys) on crystals: the result puts no member after one it is less than
RECURSIVE sorted_crystals(_)
sorted_crystals(keys) ==
    IF keys = {} THEN <<>>
    ELSE LET least == CHOOSE k \in keys : \A j \in keys : ~Crystal_lt(j, k)
         IN <<least>> \o sorted_crystals(keys \ {least})

\* sorted(keys) on ingredients
RECURSIVE sorted_ingredients(_)
sorted_ingredients(keys) ==
    IF keys = {} THEN <<>>
    ELSE LET least == CHOOSE k \in keys : \A j \in keys : ~Ingredient_lt(j, k)
         IN <<least>> \o sorted_ingredients(keys \ {least})

-----------------------------------------------------------------------------
(* Strings: str.split, str.join, int(str), str(int) *)

Digits == <<"0", "1", "2", "3", "4", "5", "6", "7", "8", "9">>

DigitChars == {Digits[d] : d \in 1..Len(Digits)}

DigitOf(ch) == (CHOOSE d \in 1..Len(Digits) : Digits[d] = ch) - 1

\* str.split(sep) for a separator of one character
RECURSIVE split(_, _)
split(s, sep) ==
    IF \A p \in 1..Len(s) : s[p] # sep THEN <<s>>
    ELSE LET p == CHOOSE q \in 1..Len(s) :
                    s[q] = sep /\ \A e \in 1..(q - 1) : s[e] # sep
         IN <<SubSeq(s, 1, p - 1)>> \o split(SubSeq(s, p + 1, Len(s)), sep)

\* sep.join(parts)
RECURSIVE join(_, _)
join(sep, parts) ==
    IF Len(parts) = 0 THEN <<>>
    ELSE IF Len(parts) = 1 THEN parts[1]
    ELSE parts[1] \o sep \o join(sep, Tail(parts))

\* str.strip() of the blanks around a string, as int() does first
RECURSIVE strip(_)
strip(s) ==
    IF s # <<>> /\ s[1] = " " THEN strip(Tail(s))
    ELSE IF s # <<>> /\ s[Len(s)] = " " THEN strip(SubSeq(s, 1, Len(s) - 1))
    ELSE s

\* The value of a run of digits with single underscores between them
RECURSIVE DecimalValue(_)
DecimalValue(s) ==
    IF s = <<>> THEN 0
    ELSE IF s[Len(s)] = "_" THEN DecimalValue(SubSeq(s, 1, Len(s) - 1))
    ELSE 10 * DecimalValue(SubSeq(s, 1, Len(s) - 1)) + DigitOf(s[Len(s)])

\* int(s): blanks around, one optional sign, digits with single underscores
\* between digits; anything else raises ValueError
int(s) ==
    LET t == strip(s)
        signed == t # <<>> /\ t[1] \in {"+", "-"}
        body == IF signed THEN Tail(t) ELSE t
        wellformed ==
            /\ body # <<>>
            /\ \A p \in 1..Len(body) : body[p] \in DigitChars \cup {"_"}
            /\ body[1] # "_"
            /\ body[Len(body)] # "_"
            /\ \A p \in 1..(Len(body) - 1) : ~(body[p] = "_" /\ body[p + 1] = "_")
    IN IF ~wellformed THEN [raised |-> "ValueError"]
       ELSE [raised |-> "",
             value |-> IF signed /\ t[1] = "-" THEN 0 - DecimalValue(body)
                       ELSE DecimalValue(body)]

\* str(k) for an integer k
RECURSIVE str(_)
str(k) ==
    IF k < 0 THEN <<"-">> \o str(0 - k)
    ELSE IF k < 10 THEN <<Digits[k + 1]>>
    ELSE str(k \div 10) \o <<Digits[(k % 10) + 1]>>

-----------------------------------------------------------------------------
(* CollectableRecipe.to_signature and CollectableRecipe.from_string *)

\* Line 141: the tokens of the ingredients, in sorted order of the keys
IngredientTokens(mapping) ==
    LET keys == sorted_ingredients(DOMAIN mapping)
    IN [p \in 1..Len(keys) |-> <<IngredientValue[keys[p]]>> \o str(mapping[keys[p]])]

\* Line 142: the tokens of the crystals, in sorted order of the keys
CrystalTokens(mapping) ==
    LET keys == sorted_crystals(DOMAIN mapping)
    IN [p \in 1..Len(keys) |-> <<CrystalValue[keys[p]]>> \o str(mapping[keys[p]])]

to_signature(r) ==
    r.name \o <<";">> \o join(<<",">>, IngredientTokens(r.ingredients))
           \o <<";">> \o join(<<",">>, CrystalTokens(r.crystals))

\* Line 98: (Ingredient(s[0]), int(s[1:])) of one token
IngredientToken(s) ==
    IF s = <<>> THEN [raised |-> "IndexError"]
    ELSE IF \A i \in Ingredient : IngredientValue[i] # s[1]
    THEN [raised |-> "ValueError"]
    ELSE IF int(Tail(s)).raised # "" THEN [raised |-> "ValueError"]
    ELSE [raised |-> "",
          kind |-> CHOOSE i \in Ingredient : IngredientValue[i] = s[1],
          count |-> int(Tail(s)).value]

\* Line 103: (Crystal(s[0]), int(s[1:])) of one token
CrystalToken(s) ==
    IF s = <<>> THEN [raised |-> "IndexError"]
    ELSE IF \A c \in Crystal : CrystalValue[c] # s[1]
    THEN [raised |-> "ValueError"]
    ELSE IF int(Tail(s)).raised # "" THEN [raised |-> "ValueError"]
    ELSE [raised |-> "",
          kind |-> CHOOSE c \in Crystal : CrystalValue[c] = s[1],
          count |-> int(Tail(s)).value]

\* Lines 107-108: the dict of a list of tokens, the last token of a kind wins
TokensToDict(tokens) ==
    LET kinds == {tokens[p].kind : p \in 1..Len(tokens)}
    IN [k \in kinds |->
           tokens[CHOOSE p \in 1..Len(tokens) :
                     /\ tokens[p].kind = k
                     /\ \A later \in (p + 1)..Len(tokens) : tokens[later].kind # k].count]

\* from_string with line 110 moved up, before the tokens are parsed
from_string_NameFirst(obj, sig) ==
    LET fields == split(sig, ";")
    IN IF Len(fields) # 3 THEN obj
       ELSE LET ingredients_untokenized == split(fields[2], ",")
                crystals_untokenized == split(fields[3], ",")
                ingredients_tokenized ==
                    [p \in 1..Len(ingredients_untokenized) |->
                        IngredientToken(ingredients_untokenized[p])]
                crystals_tokenized ==
                    [p \in 1..Len(crystals_untokenized) |->
                        CrystalToken(crystals_untokenized[p])]
            IN IF \/ \E p \in 1..Len(ingredients_tokenized) :
                        ingredients_tokenized[p].raised # ""
                  \/ \E p \in 1..Len(crystals_tokenized) :
                        crystals_tokenized[p].raised # ""
               THEN [obj EXCEPT !.name = fields[1]]
               ELSE [name |-> fields[1],
                     ingredients |-> TokensToDict(ingredients_tokenized),
                     crystals |-> TokensToDict(crystals_tokenized)]

\* from_string on the object obj: the object it returns (obj itself, rebuilt
\* or, after a caught ValueError or IndexError, as it was)
from_string(obj, sig) ==
    LET fields == split(sig, ";")
    IN IF Len(fields) # 3 THEN obj
       ELSE LET ingredients_untokenized == split(fields[2], ",")
                crystals_untokenized == split(fields[3], ",")
                ingredients_tokenized ==
                    [p \in 1..Len(ingredients_untokenized) |->
                        IngredientToken(ingredients_untokenized[p])]
                crystals_tokenized ==
                    [p \in 1..Len(crystals_untokenized) |->
                        CrystalToken(crystals_untokenized[p])]
            IN IF \/ \E p \in 1..Len(ingredients_tokenized) :
                        ingredients_tokenized[p].raised # ""
                  \/ \E p \in 1..Len(crystals_tokenized) :
                        crystals_tokenized[p].raised # ""
               THEN obj
               ELSE [name |-> fields[1],
                     ingredients |-> TokensToDict(ingredients_tokenized),
                     crystals |-> TokensToDict(crystals_tokenized)]

\* CollectableRecipe.overlap: the members of each enum, in the order the
\* enum iterates them, that are keys of both recipes
overlap(a, b) ==
    LET InBothIngredients(i) ==
            i \in DOMAIN a.ingredients /\ i \in DOMAIN b.ingredients
        InBothCrystals(c) == c \in DOMAIN a.crystals /\ c \in DOMAIN b.crystals
    IN <<SelectSeq(IngredientMembers, InBothIngredients),
         SelectSeq(CrystalMembers, InBothCrystals)>>

-----------------------------------------------------------------------------
(* The codec at work: a recipe built by the constructor is encoded and the  *)
(* signature decoded into a fresh recipe; a signature of a manifest is      *)
(* decoded, into a fresh recipe or into an existing one, and encoded again. *)

\* The subsets of a set with at most MaxKinds members
SmallSubsets(S) == {K \in SUBSET S : Cardinality(K) <= MaxKinds}

\* The quantities of the constructed recipes: of one digit and of two
Quantities == (1..MaxQty) \cup {10 * q : q \in 1..MaxQty}

\* The requirement mappings of the constructed recipes
Mappings(Kinds) == UNION {[K -> Quantities] : K \in SmallSubsets(Kinds)}

\* The names of the constructed recipes: no ";" in them
NameChars == {"a", ","}

Names == SeqsUpTo(NameChars, MaxNameLen)

\* The example of the docstring of to_signature, named rod
RodSignature ==
    <<"r", "o", "d", ";", "W", "2", ",", "G", "1", ",", "I", "1", ";",
      "W", "8", ",", "I", "8">>

\* Fields of signatures: well-formed ones, ones with a code of the other
\* family or of no family, without a count, with a count that is no integer,
\* empty, with an empty token, and with counts that int() reads although
\* they are not plain digits
FieldSamples ==
    {<<"W", "2">>,
     <<"W", "2", ",", "I", "1">>,
     <<"G", "1">>,
     <<"E", "1">>,
     <<"X", "1">>,
     <<"W">>,
     <<"W", "x">>,
     <<>>,
     <<"W", "2", ",">>,
     <<"W", "-", "1">>,
     <<"W", " ", "2">>,
     <<"W", "1", "_", "0">>,
     <<"W", "1", ",", "W", "2">>}

\* Signatures of three fields, and of two, four and one
SignatureSamples ==
    {<<"a", ";">> \o ingredients \o <<";">> \o crystals :
        ingredients \in FieldSamples, crystals \in FieldSamples}
    \cup {<<"a", ";", "W", "2">>,
          <<"a", ";", "W", "2", ";", "W", "8", ";">>,
          <<"a">>}

\* The signatures of a manifest
ManifestSignatures == {RodSignature} \cup SignatureSamples

CodecInit ==
    /\ \/ /\ pc = "constructed"
          /\ \E name \in Names, ingredients \in Mappings(Ingredient),
                crystals \in Mappings(Crystal) :
                self = [name |-> name, ingredients |-> ingredients,
                        crystals |-> crystals]
          /\ signature = <<>>
       \/ /\ pc = "manifest"
          /\ self \in RecipePool
          /\ signature \in ManifestSignatures
    /\ original = self
    /\ given = <<>>
    /\ target = DefaultRecipe
    /\ other = DefaultRecipe
    /\ overlapping = <<<<>>, <<>>>>
    /\ counts_id = 0
    /\ tracked_ids = <<>>
    /\ order = <<>>
    /\ merged = [items |-> 0, vectors |-> <<>>]
    /\ recipes = <<>>
    /\ budget_ingredients = BudgetOf(IngredientMembers, 0, 0)
    /\ budget_crystals = BudgetOf(CrystalMembers, 0, 0)
    /\ max_rounds = 0
    /\ failures_until_stop = 0
    /\ max_approximations = 0
    /\ n = 0
    /\ max_items = 0
    /\ max_vectors = <<>>
    /\ counts = <<>>
    /\ failure_streak = 0
    /\ rounds = 0
    /\ n_recipes = 0
    /\ i_recipe = 0
    /\ picks = 0
    /\ reverts = 0
    /\ held = <<>>
    /\ trial_vectors = <<>>

rest == <<args, n, max_items, max_vectors, counts, failure_streak, rounds,
          n_recipes, i_recipe, picks, reverts, held, trial_vectors, ids,
          merge_vars>>

\* self.to_signature()
ToSignature ==
    /\ pc \in {"constructed", "decoded"}
    /\ signature' = to_signature(self)
    /\ original' = self
    /\ pc' = IF pc = "constructed" THEN "encoded" ELSE "reencoded"
    /\ UNCHANGED <<self, given, target, other, overlapping, rest>>

\* CollectableRecipe().from_string(signature), as line 315 calls it
FromStringFresh ==
    /\ pc \in {"encoded", "manifest"}
    /\ self' = from_string(DefaultRecipe, signature)
    /\ given' = signature
    /\ target' = DefaultRecipe
    /\ pc' = IF pc = "encoded" THEN "round_trip" ELSE "decoded"
    /\ UNCHANGED <<signature, original, other, overlapping, rest>>

\* self.from_string(signature) on an object that holds a recipe already
FromStringInPlace ==
    /\ pc = "manifest"
    /\ self' = from_string(self, signature)
    /\ original' = self
    /\ given' = signature
    /\ target' = self
    /\ pc' = "decoded"
    /\ UNCHANGED <<signature, other, overlapping, rest>>

\* A recipe that requires one unit of every kind
EveryKindRecipe ==
    [name |-> <<"a">>,
     ingredients |-> [i \in Ingredient |-> 1],
     crystals |-> [c \in Crystal |-> 1]]

\* self.overlap(other), on a constructed recipe
Overlap ==
    /\ pc = "constructed"
    /\ \E o \in {self, EveryKindRecipe} \cup RecipePool :
          /\ other' = o
          /\ overlapping' = overlap(self, o)
    /\ pc' = "overlapped"
    /\ UNCHANGED <<self, signature, original, given, target, rest>>

CodecNext ==
    \/ ToSignature
    \/ FromStringFresh
    \/ FromStringInPlace
    \/ Overlap

CodecSpec == CodecInit /\ [][CodecNext]_vars

-----------------------------------------------------------------------------
(* The reduction of meta_approximate, lines 274-294, over a given list of
   trial vectors and then over a reordering of the same list *)

\* The vectors a trial over MaxRecipes recipes can return
TrialVectors == [1..MaxRecipes -> 0..MaxBudget]

\* The lists that hold the elements of s in some order
Reorderings(s) ==
    LET Positions == 1..Len(s)
        Bijections == {f \in [Positions -> Positions] :
                          \A p, q \in Positions : f[p] = f[q] => p = q}
    IN {[p \in Positions |-> s[f[p]]] : f \in Bijections}

MergeInit ==
    /\ pc = "merge"
    /\ trial_vectors \in SeqsUpTo(TrialVectors, MaxMerged)
    /\ order \in Reorderings(trial_vectors)
    /\ merged = [items |-> 0, vectors |-> <<>>]
    /\ n = 0
    /\ max_items = 0
    /\ max_vectors = <<>>
    /\ recipes = <<>>
    /\ budget_ingredients = BudgetOf(IngredientMembers, 0, 0)
    /\ budget_crystals = BudgetOf(CrystalMembers, 0, 0)
    /\ max_rounds = 0
    /\ failures_until_stop = 0
    /\ max_approximations = Len(trial_vectors)
    /\ counts = <<>>
    /\ failure_streak = 0
    /\ rounds = 0
    /\ n_recipes = 0
    /\ i_recipe = 0
    /\ picks = 0
    /\ reverts = 0
    /\ held = <<>>
    /\ counts_id = 0
    /\ tracked_ids = <<>>
    /\ self = DefaultRecipe
    /\ signature = <<>>
    /\ original = DefaultRecipe
    /\ given = <<>>
    /\ target = DefaultRecipe
    /\ other = DefaultRecipe
    /\ overlapping = <<<<>>, <<>>>>

\* The state the reduction leaves alone
merge_rest ==
    <<args, counts, failure_streak, rounds, n_recipes, i_recipe, picks, reverts,
      held, trial_vectors, ids, codec_vars, order>>

\* Lines 282-290 with a new maximum appended to the old vectors
MergeStep_KeepOld ==
    /\ pc \in {"merge", "merge_permuted"}
    /\ LET approximations == IF pc = "merge" THEN trial_vectors ELSE order
       IN /\ n < Len(approximations)
          /\ LET approx == approximations[n + 1]
             IN IF sum(approx) > max_items
                THEN /\ max_items' = sum(approx)
                     /\ max_vectors' = Append(max_vectors, approx)
                ELSE IF sum(approx) = max_items
                THEN /\ max_vectors' = Append(max_vectors, approx)
                     /\ UNCHANGED max_items
                ELSE UNCHANGED <<max_items, max_vectors>>
    /\ n' = n + 1
    /\ UNCHANGED <<pc, merged, merge_rest>>

\* Lines 277 and 282-290 on the next vector of the list
MergeStep ==
    /\ pc \in {"merge", "merge_permuted"}
    /\ LET approximations == IF pc = "merge" THEN trial_vectors ELSE order
       IN /\ n < Len(approximations)
          /\ LET approx == approximations[n + 1]
             IN IF sum(approx) > max_items
                THEN /\ max_items' = sum(approx)
                     /\ max_vectors' = <<approx>>
                ELSE IF sum(approx) = max_items
                THEN /\ max_vectors' = Append(max_vectors, approx)
                     /\ UNCHANGED max_items
                ELSE UNCHANGED <<max_items, max_vectors>>
    /\ n' = n + 1
    /\ UNCHANGED <<pc, merged, merge_rest>>

\* Line 294 on the list; lines 274-275 for the reordered list
MergeSwitch ==
    /\ pc = "merge"
    /\ ~(n < Len(trial_vectors))
    /\ merged' = [items |-> max_items, vectors |-> max_vectors]
    /\ max_items' = 0
    /\ max_vectors' = <<>>
    /\ n' = 0
    /\ pc' = "merge_permuted"
    /\ UNCHANGED merge_rest

\* Line 294 on the reordered list
MergeDone ==
    /\ pc = "merge_permuted"
    /\ ~(n < Len(order))
    /\ pc' = "merged"
    /\ UNCHANGED <<n, max_items, max_vectors, merged, merge_rest>>

MergeNext ==
    \/ MergeStep
    \/ MergeSwitch
    \/ MergeDone

MergeSpec == MergeInit /\ [][MergeNext]_vars

-----------------------------------------------------------------------------
(* Properties of approximate_counts *)

\* Requirement of a kind in a mapping: an absent kind requires 0
Requirement(mapping, k) == IF k \in DOMAIN mapping THEN mapping[k] ELSE 0

RECURSIVE SeqSum(_)
SeqSum(q) == IF Len(q) = 0 THEN 0 ELSE q[Len(q)] + SeqSum(SubSeq(q, 1, Len(q) - 1))

\* Consumption of a kind by a count vector
ConsumedIngredient(v, k) ==
    SeqSum([j \in 1..Len(recipes) |-> v[j] * Requirement(recipes[j].ingredients, k)])

ConsumedCrystal(v, k) ==
    SeqSum([j \in 1..Len(recipes) |-> v[j] * Requirement(recipes[j].crystals, k)])

Feasible(v) ==
    /\ \A k \in Ingredient : ConsumedIngredient(v, k) <= budget_ingredients[k]
    /\ \A k \in Crystal : ConsumedCrystal(v, k) <= budget_crystals[k]

InTrial == pc \in {"while", "picked", "returned"}

\* C1: the vector held at the start of each loop iteration of
\* approximate_counts, and the vector it returns, consumes no more than the
\* budget of any ingredient kind or crystal kind.
C1_Feasibility ==
    /\ pc \in {"while", "returned"} /\ Len(recipes) >= 1 => Feasible(counts)
    /\ \A k \in 1..Len(trial_vectors) : Feasible(trial_vectors[k])

\* A returned vector that both kept picks and reverted picks have shaped
C1_Witness ==
    /\ pc = "returned"
    /\ Len(recipes) = 2
    /\ reverts >= 1
    /\ \A j \in 1..Len(counts) : counts[j] >= 1

\* C2: the number of random picks of one run never exceeds max_rounds.
C2_RoundCap == InTrial => picks <= max_rounds

\* C3: every run of approximate_counts on a non-empty collection with
\* max_rounds >= 1 and failures_until_stop >= 1 eventually returns,
\* whatever the picks are.
C3_Termination ==
    (pc = "while" /\ Len(recipes) >= 1 /\ max_rounds >= 1 /\ failures_until_stop >= 1)
        ~> (pc = "returned")

\* C4: on an empty collection approximate_counts returns the empty vector
\* without raising and without making a pick.
C4_EmptyCollection ==
    Len(recipes) = 0 =>
        /\ pc # "raised"
        /\ picks = 0
        /\ pc = "returned" => counts = <<>>

ZeroBudget ==
    /\ \A k \in Ingredient : budget_ingredients[k] = 0
    /\ \A k \in Crystal : budget_crystals[k] = 0

AllZero(v) == \A j \in 1..Len(v) : v[j] = 0

\* C5 as stated: with every budget entry 0 and a non-empty collection the run
\* returns the all-zero vector after exactly failures_until_stop picks, each
\* of them reverted.
C5_ZeroBudgetAsStated ==
    (pc = "returned" /\ ZeroBudget /\ Len(recipes) >= 1) =>
        /\ AllZero(counts)
        /\ picks = failures_until_stop
        /\ reverts = picks

\* A recipe that requires a positive quantity of at least one kind
Requires(r) ==
    \/ \E k \in DOMAIN r.ingredients : r.ingredients[k] > 0
    \/ \E k \in DOMAIN r.crystals : r.crystals[k] > 0

\* C5: with every budget entry 0, a non-empty collection each of whose
\* recipes requires a positive quantity of some kind, and max_rounds >=
\* failures_until_stop, the run makes no more than failures_until_stop picks
\* and returns the all-zero vector after exactly failures_until_stop picks,
\* each of them reverted.
C5_ZeroBudget ==
    (/\ ZeroBudget
     /\ Len(recipes) >= 1
     /\ \A j \in 1..Len(recipes) : Requires(recipes[j])
     /\ max_rounds >= failures_until_stop) =>
        /\ InTrial => picks <= failures_until_stop
        /\ pc = "while" => AllZero(counts)
        /\ pc = "returned" =>
              /\ AllZero(counts)
              /\ picks = failures_until_stop
              /\ reverts = picks

\* A zero-budget run that returned after at least one pick
C5_Witness ==
    /\ pc = "returned"
    /\ ZeroBudget
    /\ Len(recipes) = 2
    /\ \A j \in 1..Len(recipes) : Requires(recipes[j])
    /\ max_rounds >= failures_until_stop
    /\ picks = 1
    /\ reverts = 1

\* C10: throughout a run and on return the count vector has one entry per
\* recipe, every entry is a non-negative integer, and a reverted pick leaves
\* the vector as it was before the pick while a kept pick leaves it one
\* higher in the picked entry.
C10_Shape ==
    InTrial =>
        /\ Len(counts) = Len(recipes)
        /\ \A j \in 1..Len(counts) : counts[j] \in Nat
        /\ (pc \in {"while", "returned"} /\ failure_streak > 0) => counts = held
        /\ (pc \in {"while", "returned"} /\ failure_streak = 0 /\ picks > 0) =>
              counts = [held EXCEPT ![i_recipe + 1] = Increment(@)]

\* A run in which a pick of the second recipe has just been reverted, after
\* a kept pick
C10_Witness ==
    /\ pc = "while"
    /\ Len(recipes) = 2
    /\ i_recipe = 1
    /\ failure_streak = 1
    /\ reverts = 1
    /\ picks >= 2

-----------------------------------------------------------------------------
(* Properties of meta_approximate *)

Totals == {sum(trial_vectors[k]) : k \in 1..Len(trial_vectors)}

MaxTotal == CHOOSE t \in Totals : \A u \in Totals : u <= t

\* C6: for max_approximations >= 1 the total meta_approximate returns is the
\* maximum of the totals of the vectors its trials returned.
C6_Maximality ==
    (pc = "meta_returned" /\ max_approximations >= 1) =>
        /\ Len(trial_vectors) = max_approximations
        /\ max_items = MaxTotal

\* A call whose trials returned different totals, the last not the greatest
C6_Witness ==
    /\ pc = "meta_returned"
    /\ Len(trial_vectors) >= 2
    /\ sum(trial_vectors[Len(trial_vectors)]) < sum(trial_vectors[1])

HasMaxTotal(v) == sum(v) = MaxTotal

\* C7: after every trial the tracked list is the subsequence, in trial order
\* and with duplicates kept, of the trial vectors whose total is the maximum
\* total of the trials so far.
C7_TieCollection ==
    (pc \in {"for", "meta_returned"} /\ n >= 1) =>
        /\ Len(trial_vectors) = n
        /\ max_vectors = SelectSeq(trial_vectors, HasMaxTotal)
        /\ \A k \in 1..Len(max_vectors) : sum(max_vectors[k]) = max_items

\* Two trials returned the same vector of a positive total: both are tracked
C7_Witness ==
    /\ pc = "for"
    /\ Len(max_vectors) = 2
    /\ max_vectors[1] = max_vectors[2]
    /\ max_items >= 1

-----------------------------------------------------------------------------
(* Properties of the codec *)

\* C8: decoding, into a fresh recipe, the signature that to_signature made
\* of a validly constructed recipe (empty mappings included) yields a recipe
\* of the same name, the same ingredients and the same crystals.
C8_RoundTrip ==
    pc = "round_trip" =>
        /\ self.name = original.name
        /\ self.ingredients = original.ingredients
        /\ self.crystals = original.crystals

\* The recipe the signature of the rod stands for
RodRecipe ==
    [name |-> <<"r", "o", "d">>,
     ingredients |-> [k \in {"LUMBER", "GEM", "INGOT"} |->
                         IF k = "LUMBER" THEN 2 ELSE 1],
     crystals |-> [k \in {"WIND", "ICE"} |-> 8]]

RodDecoded == (pc = "decoded" /\ given = RodSignature) => self = RodRecipe

\* C9 as stated: the signature of the rod decodes to the recipe of the rod,
\* and to_signature of that recipe returns the signature of the rod.
C9_EncodeExampleAsStated ==
    /\ RodDecoded
    /\ (pc = "reencoded" /\ given = RodSignature) => signature = RodSignature

\* The codes of the kinds in their canonical order
CanonicalIngredientCodes == <<"W", "L", "G", "S", "C", "I", "A", "F">>

CanonicalCrystalCodes == <<"F", "I", "W", "E", "L", "A">>

\* The tokens of a field begin with codes in strictly ascending canonical order
InCanonicalOrder(field, codes) ==
    LET tokens == IF field = <<>> THEN <<>> ELSE split(field, ",")
        Place(token) == CHOOSE p \in 1..Len(codes) : codes[p] = token[1]
    IN \A p \in 1..(Len(tokens) - 1) : Place(tokens[p]) < Place(tokens[p + 1])

\* The signature of the rod with the crystals in canonical order
RodCanonicalSignature ==
    <<"r", "o", "d", ";", "W", "2", ",", "G", "1", ",", "I", "1", ";",
      "I", "8", ",", "W", "8">>

\* C9: the signature of the rod decodes to the recipe of the rod, and
\* to_signature of that recipe returns "rod;W2,G1,I1;I8,W8": the tokens of
\* each field of every signature it makes are in the canonical order of the
\* kinds, in which ICE comes before WIND.
C9_EncodeExample ==
    /\ RodDecoded
    /\ (pc = "reencoded" /\ given = RodSignature) =>
          signature = RodCanonicalSignature
    /\ pc \in {"encoded", "reencoded"} =>
          LET fields == split(SubSeq(signature, Len(original.name) + 1, Len(signature)), ";")
          IN /\ Len(fields) = 3
             /\ InCanonicalOrder(fields[2], CanonicalIngredientCodes)
             /\ InCanonicalOrder(fields[3], CanonicalCrystalCodes)

\* The signature of the rod has been decoded and encoded again
C9_Witness == pc = "reencoded" /\ given = RodSignature /\ original = RodRecipe

-----------------------------------------------------------------------------
(* Further properties of approximate_counts *)

\* The kinds a recipe has in its two mappings, each with its family
KindsOf(r) ==
    {<<"ingredients", k>> : k \in DOMAIN r.ingredients}
        \cup {<<"crystals", k>> : k \in DOMAIN r.crystals}

RequirementOf(r, fk) ==
    IF fk[1] = "ingredients" THEN r.ingredients[fk[2]] ELSE r.crystals[fk[2]]

BudgetFor(fk) ==
    IF fk[1] = "ingredients" THEN budget_ingredients[fk[2]] ELSE budget_crystals[fk[2]]

AllKinds ==
    {<<"ingredients", k>> : k \in Ingredient} \cup {<<"crystals", k>> : k \in Crystal}

\* The collection is one recipe that requires 1 unit of one kind, and the
\* budget is B for that kind and 0 for every other kind
SingleUnitRecipe(B) ==
    /\ Len(recipes) = 1
    /\ \E fk \in KindsOf(recipes[1]) :
          /\ KindsOf(recipes[1]) = {fk}
          /\ RequirementOf(recipes[1], fk) = 1
          /\ BudgetFor(fk) = B
          /\ \A gk \in AllKinds \ {fk} : BudgetFor(gk) = 0

C16_FailureStreak ==
    /\ [](InTrial =>
            /\ failure_streak >= 0
            /\ failure_streak <= failures_until_stop
            /\ pc = "picked" => failure_streak < failures_until_stop)
    /\ [][/\ (pc = "for" /\ pc' = "while") => failure_streak' = 0
          /\ (pc = "picked" /\ Feasible(counts)) => failure_streak' = 0
          /\ (pc = "picked" /\ ~Feasible(counts)) =>
                failure_streak' = failure_streak + 1
          /\ (pc = "while" /\ pc' \in {"picked", "returned"}) =>
                failure_streak' = failure_streak]_vars

\* A pick has been kept after a reverted pick: the counter is back at 0
C16_Witness ==
    /\ pc = "while"
    /\ failure_streak = 0
    /\ reverts >= 1
    /\ picks >= 2
    /\ counts # held

\* C18: for the count vector of a run, summarize gives every ingredient
\* kind and every crystal kind, required by a recipe or not, the sum over
\* the recipes of count times requirement, an absent kind requiring 0.
C18_Ledger ==
    (InTrial /\ Len(counts) = Len(recipes)) =>
        LET summary == summarize(recipes, counts)
        IN /\ DOMAIN summary = {"ingredients", "crystals"}
           /\ DOMAIN summary.ingredients = Ingredient
           /\ DOMAIN summary.crystals = Crystal
           /\ \A k \in Ingredient :
                 summary.ingredients[k] = ConsumedIngredient(counts, k)
           /\ \A k \in Crystal :
                 summary.crystals[k] = ConsumedCrystal(counts, k)

\* Two recipes that share a kind, both with a positive count
C18_Witness ==
    /\ pc = "picked"
    /\ Len(recipes) = 2
    /\ \A j \in 1..2 : counts[j] >= 1
    /\ recipes[1] # recipes[2]
    /\ \E k \in Ingredient :
          k \in DOMAIN recipes[1].ingredients /\ k \in DOMAIN recipes[2].ingredients

\* One more of recipe j on top of the vector v
OneMore(v, j) == [v EXCEPT ![j] = @ + 1]

EndedByStreak ==
    /\ pc = "returned"
    /\ Len(recipes) >= 2
    /\ max_rounds >= 1
    /\ failures_until_stop >= 1
    /\ failure_streak = failures_until_stop

\* C19 as stated: when a run on two or more recipes ends because the
\* failure streak reached failures_until_stop, one more of any recipe would
\* exceed the budget.
C19_SaturatedAsStated ==
    EndedByStreak => \A j \in 1..Len(recipes) : ~Feasible(OneMore(counts, j))

\* C19: when a run on two or more recipes ends because the failure streak
\* reached failures_until_stop, one more of the recipe picked last would
\* exceed the budget.
C19_Saturated == EndedByStreak => ~Feasible(OneMore(counts, i_recipe + 1))

\* A run that ended by the streak although another recipe had room left
C19_Witness ==
    /\ EndedByStreak
    /\ \E j \in 1..Len(recipes) : Feasible(OneMore(counts, j))

-----------------------------------------------------------------------------
(* Further properties of meta_approximate *)

\* C15: with max_approximations = 0 no trial is run and meta_approximate
\* returns the total 0 and an empty list of vectors.
C15_ZeroTrials ==
    max_approximations = 0 =>
        /\ pc \in {"for", "meta_returned"}
        /\ trial_vectors = <<>>
        /\ picks = 0
        /\ pc = "meta_returned" => (max_items = 0 /\ max_vectors = <<>>)

\* meta_approximate has returned from a call for no trial on some recipes
C15_Witness ==
    /\ pc = "meta_returned"
    /\ max_approximations = 0
    /\ Len(recipes) >= 1

\* The codes of a family of kinds
Codes(codes) == {codes[p] : p \in 1..Len(codes)}

\* A token without a recognized code or without an integer behind the code
BadToken(token, codes) ==
    \/ token = <<>>
    \/ token[1] \notin Codes(codes)
    \/ int(Tail(token)).raised # ""

BadField(field, codes) ==
    LET tokens == split(field, ",")
    IN \E p \in 1..Len(tokens) : BadToken(tokens[p], codes)

\* A signature that has not exactly three fields, or has a bad token
Malformed(sig) ==
    LET fields == split(sig, ";")
    IN \/ Len(fields) # 3
       \/ BadField(fields[2], CanonicalIngredientCodes)
       \/ BadField(fields[3], CanonicalCrystalCodes)

\* C12 as stated: after from_string on a malformed signature the object is
\* in the default state (empty name, no ingredients, no crystals), whatever
\* it held before.
C12_DecodeFailureAsStated ==
    (pc = "decoded" /\ Malformed(given)) => self = DefaultRecipe

\* C12: after from_string on a malformed signature the object is in the
\* state it was in before the call, which is the default state when it was
\* called on a fresh recipe.
C12_DecodeFailure ==
    (pc = "decoded" /\ Malformed(given)) =>
        /\ self = target
        /\ target = DefaultRecipe => self = DefaultRecipe

\* A malformed signature has been given to a recipe that held requirements
C12_Witness ==
    /\ pc = "decoded"
    /\ Malformed(given)
    /\ Len(split(given, ";")) = 3
    /\ target # DefaultRecipe
    /\ self # DefaultRecipe

\* The members of a list are in strictly ascending canonical order
Ascending(list, value, codes) ==
    LET Place(k) == CHOOSE p \in 1..Len(codes) : codes[p] = value[k]
    IN \A p \in 1..(Len(list) - 1) : Place(list[p]) < Place(list[p + 1])

Members(list) == {list[p] : p \in 1..Len(list)}

\* C13: overlap returns the ingredient kinds of both recipes and the crystal
\* kinds of both recipes, each list in the canonical order of the kinds,
\* the order in which to_signature sorts them.
C13_OverlapOrder ==
    pc = "overlapped" =>
        /\ Members(overlapping[1])
              = (DOMAIN self.ingredients) \cap (DOMAIN other.ingredients)
        /\ Members(overlapping[2])
              = (DOMAIN self.crystals) \cap (DOMAIN other.crystals)
        /\ Ascending(overlapping[1], IngredientValue, CanonicalIngredientCodes)
        /\ Ascending(overlapping[2], CrystalValue, CanonicalCrystalCodes)
        /\ overlapping[1] = sorted_ingredients(Members(overlapping[1]))
        /\ overlapping[2] = sorted_crystals(Members(overlapping[2]))

\* The number of times v is in the list
Occurrences(list, v) == Cardinality({p \in 1..Len(list) : list[p] = v})

\* C14: the reduction of meta_approximate over a list of trial vectors and
\* over any reordering of the list ends with the same maximum total and with
\* the same vectors tracked, each as many times; only their order may differ.
C14_MergeOrder ==
    pc = "merged" =>
        /\ max_items = merged.items
        /\ Len(max_vectors) = Len(merged.vectors)
        /\ \A v \in TrialVectors :
              Occurrences(max_vectors, v) = Occurrences(merged.vectors, v)

\* Both reductions are done, over lists in different orders, and the tracked
\* vectors came out in different orders
C14_Witness ==
    /\ pc = "merged"
    /\ order # trial_vectors
    /\ Len(max_vectors) >= 2
    /\ max_vectors # merged.vectors
    /\ \E p \in 1..Len(trial_vectors) : sum(trial_vectors[p]) < max_items

\* The arguments of every trial: the collection and the two budgets
Inputs == <<recipes, budget_ingredients, budget_crystals>>

\* C17: no step of approximate_counts or meta_approximate changes the recipe
\* collection or the two budgets, and the tracked list changes only when
\* meta_approximate compares a returned vector: the steps of a trial, which
\* write to the trial's own list, change no vector a former trial returned,
\* because no tracked list is the list a running trial writes to.
C17_TrialIndependence ==
    /\ [][Inputs' = Inputs]_vars
    /\ [][pc # "returned" => max_vectors' = max_vectors]_vars
    /\ [][pc = "returned" =>
            \/ max_vectors' = max_vectors
            \/ max_vectors' = <<counts>>
            \/ max_vectors' = Append(max_vectors, counts)]_vars
    /\ [](InTrial => \A k \in 1..Len(tracked_ids) : tracked_ids[k] # counts_id)
    /\ [](Len(tracked_ids) = Len(max_vectors))

\* A later trial has written to its own vector while the vector of an
\* earlier trial is tracked, and the two differ
C17_Witness ==
    /\ pc = "while"
    /\ n >= 1
    /\ picks >= 1
    /\ Len(max_vectors) >= 1
    /\ sum(max_vectors[1]) >= 1
    /\ sum(counts) >= 1
    /\ counts # max_vectors[1]

====
